---- MODULE Spec2Model ----
(***************************************************************************)
(* threepp: the render list (GLRenderLists.cpp) and the GPU texture        *)
(* manager (GLTextures.cpp), as state machines.                            *)
(*                                                                         *)
(* Spec       the render list: init / push / unshift / sort / finish       *)
(* FrameSpec  the render list of one scene, the item count of the frame    *)
(*            before the last init() recorded                              *)
(* TexSpec    the texture manager: setTexture2D / setTexture2DArray /      *)
(*            setTexture3D / setTextureCube / dispose                      *)
(* UnitSpec   the texture units of a pass: resetTextureUnits /             *)
(*            allocateTextureUnit                                          *)
(* FormatSpec getInternalFormat on any format and type                     *)
(* MipSpec    uploadTexture on a texture of any shape                      *)
(***************************************************************************)
EXTENDS Integers, Sequences, FiniteSets, TLC

VARIABLES
    \* ---- gl::GLRenderList
    renderItems,        \* the pool: sequence of RenderItem (slot k of the C++ vector is k+1 here)
    renderItemsIndex,   \* the high-water mark
    opaque,             \* sequence of references into the pool (slot numbers)
    transparent,        \* sequence of references into the pool (slot numbers)
    \* ---- environment of the render list
    scene,              \* the scene whose draws scene traversal supplies
    stdlib,             \* the standard library the build links: which std::stable_sort runs
    \* ---- observation of the render list's calls (history, not program state)
    lastOp,             \* the last GLRenderList method called
    calls,              \* push and unshift calls since the last init()
    prevCount,          \* push and unshift calls of the frame the last init() ended
                        \* (recorded under FrameSpec only)
    anyUnshift,         \* whether unshift was called since the last init()
    \* ---- the textures (Texture objects, owned by the application)
    texVersion,         \* texture.version() of each texture
    texImage,           \* whether texture.image holds an image
    texGenerateMipmaps, \* texture.generateMipmaps
    texShape,           \* what each texture was created with: manual mipmaps, image size, minFilter
    texListeners,       \* "dispose" listeners registered on each texture
    \* ---- gl::GLTextures and what it shares with the renderer
    textureProperties,  \* properties.textureProperties: texture -> TextureProperties
    infoMemoryTextures, \* info.memory.textures
    glTextureNames,     \* the texture names OpenGL has generated and not deleted
    \* ---- observation of the texture manager's calls (history, not program state)
    lastCall,           \* the last call: what it was, what it did, what it followed
    \* ---- gl::GLTextures: texture units
    textureUnits,       \* the next texture unit to hand out
    maxTextures,        \* the number of texture units the GPU reports
    \* ---- observation of the texture unit calls (history, not program state)
    unitOp,             \* the last of resetTextureUnits / allocateTextureUnit called
    unitReturned,       \* what the last allocateTextureUnit() returned
    unitDiagnostic,     \* whether the last allocateTextureUnit() wrote to std::cerr
    unitCalls,          \* allocateTextureUnit() calls since the last resetTextureUnits()
    unitWasReset,       \* whether resetTextureUnits() was ever called
    \* ---- getInternalFormat: its arguments and what it returned
    glFormat,           \* the GL pixel format
    glType,             \* the GL component type
    glInternalFormat    \* the value returned, "none" before the call

rlVars == <<renderItems, renderItemsIndex, opaque, transparent, scene, stdlib,
            lastOp, calls, prevCount, anyUnshift>>

texVars == <<texVersion, texImage, texGenerateMipmaps, texShape, texListeners, textureProperties,
             infoMemoryTextures, glTextureNames, lastCall>>

unitVars == <<textureUnits, maxTextures, unitOp, unitReturned, unitDiagnostic,
              unitCalls, unitWasReset>>

fmtVars == <<glFormat, glType, glInternalFormat>>

vars == <<rlVars, texVars, unitVars, fmtVars>>

(***************************************************************************)
(* Bounds                                                                  *)
(***************************************************************************)
\* push/unshift calls per frame
MaxPush == 4
\* the highest content version a texture reaches
MaxVersion == 2
\* the highest texture unit a texture is bound to
MaxSlot == 1
\* the highest texture name glGenTextures hands out
MaxName == 2
\* the most texture units allocated between two resets
MaxUnits == 6
\* the most texture units a GPU reports
MaxMaxTextures == 3
\* the most manual mipmaps of a texture
MaxMipmaps == 2
\* the largest width and height of an image
MaxSize == 5

(***************************************************************************)
(* Values                                                                  *)
(***************************************************************************)
\* a null pointer (object, geometry, material, program)
nullptr == 0
\* an empty std::optional<GeometryGroup>
nullopt == 0
\* the id of an inactive (cleared) RenderItem
InactiveId == -1

(***************************************************************************)
(* The collaborators a draw refers to.  An Object3D, a Material and a      *)
(* program are referred to by pointer; here the pointer is the object's    *)
(* id, which is unique per object.                                         *)
(***************************************************************************)
\* Object3D: id and renderOrder of object o
Object3D(o) == [id |-> o, renderOrder |-> IF o = 5 THEN 1 ELSE 0]

\* Material: id and transparent flag of material m
Material(m) == [id |-> m, transparent |-> (m = 4)]

\* properties.materialProperties.get(material->uuid).program: the compiled
\* program of material m, nullptr when not compiled
MaterialProgram(m) ==
    CASE m = 1 -> 2
      [] m = 2 -> nullptr
      [] m = 3 -> 1
      [] m = 4 -> 1

\* the arguments of one push/unshift call
Draw(o, m, g, depth) ==
    [object |-> o, geometry |-> 1, material |-> m, groupOrder |-> g, z |-> depth,
     group |-> nullopt]

\* three objects at depths 1, 5, 3 sharing one opaque material
SceneDepthOpaque == { Draw(1, 3, 0, 1), Draw(2, 3, 0, 5), Draw(3, 3, 0, 3) }
\* three objects at depths 1, 5, 3 sharing one transparent material
SceneDepthTransparent == { Draw(1, 4, 0, 1), Draw(2, 4, 0, 5), Draw(3, 4, 0, 3) }
\* opaque draws whose materials have program 1, program 2 and no program
SceneCycle == { Draw(3, 2, 0, 3), Draw(1, 3, 0, 1), Draw(4, 1, 0, 3), Draw(2, 3, 0, 5) }
\* transparent and opaque draws, equal keys with different object ids,
\* different groupOrder and renderOrder
SceneMixed == { Draw(2, 4, 0, 3), Draw(1, 4, 0, 3), Draw(5, 3, 0, 3), Draw(1, 3, 1, 3) }

\* the three opaque materials of SceneCycle in one groupOrder and renderOrder,
\* an opaque draw of a higher groupOrder nearer to the camera, and
\* transparent draws of two groupOrders and renderOrders
SceneOrders == { Draw(3, 2, 0, 3), Draw(1, 3, 0, 1), Draw(4, 1, 0, 3),
                 Draw(2, 2, 1, 0),
                 Draw(2, 4, 1, 3), Draw(5, 4, 0, 5) }

Scenes == { "depthOpaque", "depthTransparent", "cycle", "mixed", "orders" }

\* the draws of a scene
Draws(name) ==
    CASE name = "depthOpaque" -> SceneDepthOpaque
      [] name = "depthTransparent" -> SceneDepthTransparent
      [] name = "cycle" -> SceneCycle
      [] name = "mixed" -> SceneMixed
      [] name = "orders" -> SceneOrders

(***************************************************************************)
(* The comparators                                                         *)
(***************************************************************************)
\* a comparator of depth alone
painterSortByDepth(a, b) == b.z > a.z

\* painterSortStable(a, b): true when a goes before b
painterSortStable(a, b) ==
    IF a.groupOrder # b.groupOrder THEN b.groupOrder > a.groupOrder
    ELSE IF a.renderOrder # b.renderOrder THEN b.renderOrder > a.renderOrder
    ELSE IF a.program # nullptr /\ b.program # nullptr /\ a.program # b.program
         THEN b.program > a.program
    ELSE IF Material(a.material).id # Material(b.material).id
         THEN Material(b.material).id > Material(a.material).id
    ELSE IF a.z # b.z THEN b.z > a.z
    ELSE b.id > a.id

\* reversePainterSortStable(a, b): true when a goes before b
reversePainterSortStable(a, b) ==
    IF a.groupOrder # b.groupOrder THEN b.groupOrder > a.groupOrder
    ELSE IF a.renderOrder # b.renderOrder THEN b.renderOrder > a.renderOrder
    ELSE IF a.program # nullptr /\ b.program # nullptr /\ a.program # b.program
         THEN b.program > a.program
    ELSE IF Material(a.material).id # Material(b.material).id
         THEN Material(b.material).id > Material(a.material).id
    ELSE IF a.z # b.z THEN b.z > a.z
    ELSE b.id > a.id

Range(s) == { s[i] : i \in DOMAIN s }

\* the comparator as a table over the items a bucket refers to
PainterTable(bucket) ==
    [a \in Range(bucket) |-> [b \in Range(bucket) |->
        painterSortStable(renderItems[a], renderItems[b])]]

ReversePainterTable(bucket) ==
    [a \in Range(bucket) |-> [b \in Range(bucket) |->
        reversePainterSortStable(renderItems[a], renderItems[b])]]

(***************************************************************************)
(* std::stable_sort.  With a comparator that is a strict weak ordering     *)
(* every implementation returns the same sequence.  The comparators above  *)
(* are not one when null and non-null programs meet, so the result then    *)
(* depends on the algorithm the standard library runs; the two below are   *)
(* the ones that run on ranges this short.                                 *)
(***************************************************************************)
\* one step of insertion sort: s[1..i-1] is done, s[i] is placed.  An element
\* that compares before the first goes to the front without further
\* comparisons; any other moves left past the elements it compares before.
RECURSIVE InsertionSortFrom(_, _, _)
InsertionSortFrom(s, i, lt) ==
    IF i > Len(s) THEN s
    ELSE LET val == s[i]
             pre == SubSeq(s, 1, i - 1)
             j   == CHOOSE p \in 1..(i - 1) :
                        /\ ~lt[val][pre[p]]
                        /\ \A k \in (p + 1)..(i - 1) : lt[val][pre[k]]
             placed == IF lt[val][pre[1]]
                       THEN <<val>> \o pre
                       ELSE SubSeq(pre, 1, j) \o <<val>> \o SubSeq(pre, j + 1, i - 1)
         IN InsertionSortFrom(placed \o SubSeq(s, i + 1, Len(s)), i + 1, lt)

\* insertion sort of the whole range (MSVC's std::stable_sort up to 32
\* elements, libstdc++'s below 15 elements when it gets no buffer)
InsertionSort(s, lt) == IF Len(s) < 2 THEN s ELSE InsertionSortFrom(s, 2, lt)

\* forward merge of two sorted runs: the second run's head is taken only when
\* it compares before the first run's head
RECURSIVE MergeForward(_, _, _)
MergeForward(r1, r2, lt) ==
    IF r1 = <<>> THEN r2
    ELSE IF r2 = <<>> THEN r1
    ELSE IF lt[r2[1]][r1[1]]
         THEN <<r2[1]>> \o MergeForward(r1, Tail(r2), lt)
         ELSE <<r1[1]>> \o MergeForward(Tail(r1), r2, lt)

\* backward merge of two sorted runs: the first run's last element goes to
\* the back only when the second run's last element compares before it
RECURSIVE MergeBackward(_, _, _)
MergeBackward(r1, r2, lt) ==
    IF r1 = <<>> THEN r2
    ELSE IF r2 = <<>> THEN r1
    ELSE IF lt[r2[Len(r2)]][r1[Len(r1)]]
         THEN MergeBackward(SubSeq(r1, 1, Len(r1) - 1), r2, lt) \o <<r1[Len(r1)]>>
         ELSE MergeBackward(r1, SubSeq(r2, 1, Len(r2) - 1), lt) \o <<r2[Len(r2)]>>

\* libstdc++'s std::stable_sort with its buffer, for ranges of at most 14
\* elements: the two halves are insertion sorted and merged, forward when the
\* first half is not the longer one, else backward
AdaptiveSort(s, lt) ==
    LET mid   == (Len(s) + 1) \div 2
        left  == InsertionSort(SubSeq(s, 1, mid), lt)
        right == InsertionSort(SubSeq(s, mid + 1, Len(s)), lt)
    IN IF mid <= Len(s) - mid THEN MergeForward(left, right, lt)
       ELSE MergeBackward(left, right, lt)

StdLibs == { "insertion", "adaptive" }

stable_sort(s, lt) ==
    IF stdlib = "insertion" THEN InsertionSort(s, lt) ELSE AdaptiveSort(s, lt)

(***************************************************************************)
(* gl::GLRenderList                                                        *)
(***************************************************************************)
\* a RenderItem constructed without looking the program up
NewRenderItemWithoutProgram(d) ==
    [id          |-> Object3D(d.object).id,
     object      |-> d.object,
     geometry    |-> d.geometry,
     material    |-> d.material,
     program     |-> nullptr,
     groupOrder  |-> d.groupOrder,
     renderOrder |-> Object3D(d.object).renderOrder,
     z           |-> d.z,
     group       |-> d.group]

\* the RenderItem getNextRenderItem constructs on the append path
NewRenderItem(d) ==
    [id          |-> Object3D(d.object).id,
     object      |-> d.object,
     geometry    |-> d.geometry,
     material    |-> d.material,
     program     |-> MaterialProgram(d.material),
     groupOrder  |-> d.groupOrder,
     renderOrder |-> Object3D(d.object).renderOrder,
     z           |-> d.z,
     group       |-> d.group]

\* the RenderItem getNextRenderItem leaves in a reused slot: program is
\* assigned only when the material has one
ReusedRenderItem(old, d) ==
    [id          |-> Object3D(d.object).id,
     object      |-> d.object,
     geometry    |-> d.geometry,
     material    |-> d.material,
     program     |-> IF MaterialProgram(d.material) # nullptr
                     THEN MaterialProgram(d.material) ELSE old.program,
     groupOrder  |-> d.groupOrder,
     renderOrder |-> Object3D(d.object).renderOrder,
     z           |-> d.z,
     group       |-> d.group]

\* the pool after getNextRenderItem(d); the item returned is the one in slot
\* renderItemsIndex + 1 of it
PoolAfterNext(d) ==
    IF renderItemsIndex >= Len(renderItems)
    THEN Append(renderItems, NewRenderItem(d))
    ELSE [renderItems EXCEPT ![renderItemsIndex + 1] = ReusedRenderItem(@, d)]

getNextRenderItem(d) ==
    /\ renderItems' = PoolAfterNext(d)
    /\ renderItemsIndex' = renderItemsIndex + 1

\* an init() that keeps the pool for reuse
PoolAfterInitKept == renderItems

\* the pool init() leaves
PoolAfterInit == <<>>

init ==
    /\ renderItemsIndex' = 0
    /\ renderItems' = PoolAfterInit
    /\ opaque' = <<>>
    /\ transparent' = <<>>
    /\ lastOp' = "init"
    /\ calls' = 0
    /\ anyUnshift' = FALSE
    /\ UNCHANGED <<scene, stdlib>>
    /\ UNCHANGED <<texVars, unitVars, fmtVars>>

\* a push that never looks at the material's flag
IsTransparentNever(m) == FALSE

\* the bucket push and unshift put the item of material m in
IsTransparent(m) == Material(m).transparent

push(d) ==
    /\ renderItemsIndex < MaxPush
    /\ getNextRenderItem(d)
    /\ IF IsTransparent(d.material)
       THEN /\ transparent' = Append(transparent, renderItemsIndex + 1)
            /\ UNCHANGED opaque
       ELSE /\ opaque' = Append(opaque, renderItemsIndex + 1)
            /\ UNCHANGED transparent
    /\ lastOp' = "push"
    /\ calls' = calls + 1
    /\ UNCHANGED <<scene, stdlib, prevCount, anyUnshift>>
    /\ UNCHANGED <<texVars, unitVars, fmtVars>>

unshift(d) ==
    /\ renderItemsIndex < MaxPush
    /\ getNextRenderItem(d)
    /\ IF IsTransparent(d.material)
       THEN /\ transparent' = <<renderItemsIndex + 1>> \o transparent
            /\ UNCHANGED opaque
       ELSE /\ opaque' = <<renderItemsIndex + 1>> \o opaque
            /\ UNCHANGED transparent
    /\ lastOp' = "unshift"
    /\ calls' = calls + 1
    /\ anyUnshift' = TRUE
    /\ UNCHANGED <<scene, stdlib, prevCount>>
    /\ UNCHANGED <<texVars, unitVars, fmtVars>>

SortedOpaque ==
    IF Len(opaque) > 1 THEN stable_sort(opaque, PainterTable(opaque)) ELSE opaque

SortedTransparent ==
    IF Len(transparent) > 1
    THEN stable_sort(transparent, ReversePainterTable(transparent)) ELSE transparent

sort ==
    /\ opaque' = SortedOpaque
    /\ transparent' = SortedTransparent
    /\ lastOp' = "sort"
    /\ UNCHANGED <<renderItems, renderItemsIndex, scene, stdlib, calls, prevCount,
                   anyUnshift>>
    /\ UNCHANGED <<texVars, unitVars, fmtVars>>

\* a cleared RenderItem: groupOrder, renderOrder and z are kept
Cleared(item) ==
    [item EXCEPT !.id = InactiveId, !.object = nullptr, !.geometry = nullptr,
                 !.material = nullptr, !.program = nullptr, !.group = nullopt]

\* the first slot above the high-water mark that is already cleared, or the
\* slot after the pool's last one: the loop of finish() stops there
FinishStop ==
    LET already == { i \in (renderItemsIndex + 1)..Len(renderItems) :
                        renderItems[i].id = InactiveId }
    IN IF already = {} THEN Len(renderItems) + 1
       ELSE CHOOSE i \in already : \A k \in already : i <= k

\* a finish() whose loop starts at slot 0
PoolAfterFinishFromZero ==
    [i \in DOMAIN renderItems |-> Cleared(renderItems[i])]

\* the pool finish() leaves: the slots from the high-water mark up to the one
\* the loop stops at are cleared
PoolAfterFinish ==
    [i \in DOMAIN renderItems |->
        IF i > renderItemsIndex /\ i < FinishStop
        THEN Cleared(renderItems[i]) ELSE renderItems[i]]

finish ==
    /\ renderItems' = PoolAfterFinish
    /\ lastOp' = "finish"
    /\ UNCHANGED <<renderItemsIndex, opaque, transparent, scene, stdlib, calls,
                   prevCount, anyUnshift>>
    /\ UNCHANGED <<texVars, unitVars, fmtVars>>

(***************************************************************************)
(* The textures.  A texture is referred to by its uuid, here 1 or 2.       *)
(***************************************************************************)
Textures == { 1, 2 }

Slots == 0..MaxSlot

\* the two textures of the texture manager's specification: the number of
\* manual mipmaps, the image's size and the minification filter
TextureShape(t) ==
    CASE t = 1 -> [mipmaps |-> 0, width |-> 4, height |-> 2,
                   minFilter |-> "LinearMipmapLinearFilter"]
      [] t = 2 -> [mipmaps |-> 2, width |-> 2, height |-> 2,
                   minFilter |-> "LinearFilter"]

\* what the application fixed when it created texture t
Texture(t) == texShape[t]

\* the TextureProperties of a texture the table has no entry for yet
DefaultTextureProperties ==
    [glInit |-> FALSE, glTexture |-> 0, version |-> 0, maxMipLevel |-> 0]

\* properties.textureProperties.get(uuid): the entry, made when there is none
PropertiesGet(t) ==
    IF t \in DOMAIN textureProperties THEN textureProperties[t]
    ELSE DefaultTextureProperties

\* the table with the entry of t set to props
PropertiesWith(t, props) ==
    [u \in (DOMAIN textureProperties) \cup {t} |->
        IF u = t THEN props ELSE textureProperties[u]]

\* properties.textureProperties.remove(uuid)
PropertiesRemove(t) ==
    [u \in (DOMAIN textureProperties) \ {t} |-> textureProperties[u]]

\* what a call of the texture manager on texture t follows: the same call on
\* the same texture, the disposal of that texture, or anything else
Follows(op, t) ==
    IF lastCall.texture = t /\ lastCall.op = op THEN "same"
    ELSE IF lastCall.texture = t /\ lastCall.op = "dispose" THEN "dispose"
    ELSE "other"

\* the call a step observes: the texture unit, whether it bound and what,
\* whether it uploaded, whether it allocated a texture name, what it follows
\* and, when it follows the same call on the same texture, whether that one
\* uploaded and allocated
Call(op, t, slot, bound, target, handle, uploaded, allocated) ==
    [op |-> op, texture |-> t, slot |-> slot, bound |-> bound, target |-> target,
     handle |-> handle, uploaded |-> uploaded, allocated |-> allocated,
     follows |-> IF op \in {"new", "needsUpdate", "setImage", "dispose"}
                 THEN "other" ELSE Follows(op, t),
     priorUploaded  |-> op = lastCall.op /\ t = lastCall.texture /\ lastCall.uploaded,
     priorAllocated |-> op = lastCall.op /\ t = lastCall.texture /\ lastCall.allocated,
     levels |-> 0, generated |-> FALSE]

\* Texture::needsUpdate(): the content version goes up by one
needsUpdate(t) ==
    /\ texVersion[t] < MaxVersion
    /\ texVersion' = [texVersion EXCEPT ![t] = @ + 1]
    /\ lastCall' = Call("needsUpdate", t, 0, FALSE, "none", 0, FALSE, FALSE)
    /\ UNCHANGED <<texImage, texGenerateMipmaps, texShape, texListeners, textureProperties,
                   infoMemoryTextures, glTextureNames>>
    /\ UNCHANGED <<rlVars, unitVars, fmtVars>>

\* the application gives the texture an image, or takes it away
setImage(t, present) ==
    /\ texImage[t] # present
    /\ texImage' = [texImage EXCEPT ![t] = present]
    /\ lastCall' = Call("setImage", t, 0, FALSE, "none", 0, FALSE, FALSE)
    /\ UNCHANGED <<texVersion, texGenerateMipmaps, texShape, texListeners, textureProperties,
                   infoMemoryTextures, glTextureNames>>
    /\ UNCHANGED <<rlVars, unitVars, fmtVars>>

(***************************************************************************)
(* gl::GLTextures                                                          *)
(***************************************************************************)
\* textureNeedsGenerateMipmaps(texture), with generateMipmaps as it is when
\* uploadTexture asks
textureNeedsGenerateMipmaps(t, generateMipmaps) ==
    /\ generateMipmaps
    /\ Texture(t).minFilter # "NearestFilter"
    /\ Texture(t).minFilter # "LinearFilter"

\* (int) std::log2(n) for n >= 1
RECURSIVE Log2(_)
Log2(n) == IF n < 2 THEN 0 ELSE 1 + Log2(n \div 2)

Max(a, b) == IF a >= b THEN a ELSE b

\* the state.texImage2D calls of uploadTexture: one per manual mipmap, one
\* for the image when there is none
LevelsUploaded(t) == IF Texture(t).mipmaps > 0 THEN Texture(t).mipmaps ELSE 1

\* an uploadTexture that leaves texture.generateMipmaps alone
GenerateMipmapsKept(t) == texGenerateMipmaps[t]

\* texture.generateMipmaps after uploadTexture
GenerateMipmapsAfterUpload(t) ==
    IF Texture(t).mipmaps > 0 THEN FALSE ELSE texGenerateMipmaps[t]

\* textureProperties.maxMipLevel after uploadTexture
MaxMipLevelAfterUpload(t) ==
    IF textureNeedsGenerateMipmaps(t, GenerateMipmapsAfterUpload(t))
    THEN Log2(Max(Texture(t).width, Texture(t).height))
    ELSE IF Texture(t).mipmaps > 0 THEN Texture(t).mipmaps - 1
    ELSE 0

\* an initTexture without the glInit guard
InitTextureAllocatesAlways(props) == TRUE

\* whether initTexture allocates: only when glInit is not set
InitTextureAllocates(props) == ~props.glInit

\* an uploadTexture that leaves the stored version as it was
StampedVersionForgotten(t) == PropertiesGet(t).version

\* the version uploadTexture stamps on the entry
StampedVersion(t) == texVersion[t]

\* uploadTexture(textureProperties, texture, slot) with an image present:
\* initTexture, bind as GL_TEXTURE_2D, upload, stamp the version.  name is the
\* texture name glGenTextures returns when initTexture allocates.
uploadTexture(op, props, t, slot, name) ==
    LET allocates == InitTextureAllocates(props)
        handle    == IF allocates THEN name ELSE props.glTexture
    IN /\ allocates => name \notin glTextureNames
       /\ ~allocates => name = props.glTexture
       /\ textureProperties' = PropertiesWith(t,
              [glInit      |-> TRUE,
               glTexture   |-> handle,
               version     |-> StampedVersion(t),
               maxMipLevel |-> MaxMipLevelAfterUpload(t)])
       /\ texListeners' = IF allocates THEN [texListeners EXCEPT ![t] = @ + 1]
                          ELSE texListeners
       /\ glTextureNames' = IF allocates THEN glTextureNames \cup {name}
                            ELSE glTextureNames
       /\ infoMemoryTextures' = IF allocates THEN infoMemoryTextures + 1
                                ELSE infoMemoryTextures
       /\ texGenerateMipmaps' = [texGenerateMipmaps EXCEPT
                                    ![t] = GenerateMipmapsAfterUpload(t)]
    /\ lastCall' = [Call(op, t, slot, TRUE, "GL_TEXTURE_2D", handle, TRUE, allocates)
                       EXCEPT !.levels = LevelsUploaded(t),
                              !.generated = textureNeedsGenerateMipmaps(t,
                                                GenerateMipmapsAfterUpload(t))]

\* the end of setTexture*: activeTexture(slot) and bindTexture(target, glTexture);
\* the entry of t exists from the call's get()
bindOnly(op, props, t, slot, target) ==
    /\ textureProperties' = PropertiesWith(t, props)
    /\ lastCall' = Call(op, t, slot, TRUE, target, props.glTexture, FALSE, FALSE)
    /\ UNCHANGED <<texListeners, glTextureNames, infoMemoryTextures, texGenerateMipmaps>>

\* a setTexture* that returns without binding
noBind(op, props, t, slot) ==
    /\ textureProperties' = PropertiesWith(t, props)
    /\ lastCall' = Call(op, t, slot, FALSE, "none", 0, FALSE, FALSE)
    /\ UNCHANGED <<texListeners, glTextureNames, infoMemoryTextures, texGenerateMipmaps>>

\* a staleness test that holds for every texture
StaleAlways(props, t) == TRUE

\* texture.version() > 0 && textureProperties.version != texture.version()
Stale(props, t) == texVersion[t] > 0 /\ props.version # texVersion[t]

\* a setTexture2D that uploads whether or not there is an image
setTexture2DWithoutImageUploads(props, t, slot) ==
    \E name \in 1..MaxName : uploadTexture("setTexture2D", props, t, slot, name)

\* what setTexture2D does on a stale texture without an image: it goes on to
\* the bind
setTexture2DWithoutImage(props, t, slot) ==
    bindOnly("setTexture2D", props, t, slot, "GL_TEXTURE_2D")

setTexture2D(t, slot) ==
    LET props == PropertiesGet(t)
    IN /\ IF Stale(props, t)
          THEN IF ~texImage[t]
               THEN setTexture2DWithoutImage(props, t, slot)
               ELSE \E name \in 1..MaxName : uploadTexture("setTexture2D", props, t, slot, name)
          ELSE bindOnly("setTexture2D", props, t, slot, "GL_TEXTURE_2D")
       /\ UNCHANGED <<texVersion, texImage, texShape>>
       /\ UNCHANGED <<rlVars, unitVars, fmtVars>>

setTexture2DArray(t, slot) ==
    LET props == PropertiesGet(t)
    IN /\ IF Stale(props, t)
          THEN IF ~texImage[t]
               THEN noBind("setTexture2DArray", props, t, slot)
               ELSE \E name \in 1..MaxName :
                        uploadTexture("setTexture2DArray", props, t, slot, name)
          ELSE bindOnly("setTexture2DArray", props, t, slot, "GL_TEXTURE_2D_ARRAY")
       /\ UNCHANGED <<texVersion, texImage, texShape>>
       /\ UNCHANGED <<rlVars, unitVars, fmtVars>>

setTexture3D(t, slot) ==
    LET props == PropertiesGet(t)
    IN /\ IF Stale(props, t)
          THEN IF ~texImage[t]
               THEN noBind("setTexture3D", props, t, slot)
               ELSE \E name \in 1..MaxName :
                        uploadTexture("setTexture3D", props, t, slot, name)
          ELSE bindOnly("setTexture3D", props, t, slot, "GL_TEXTURE_3D")
       /\ UNCHANGED <<texVersion, texImage, texShape>>
       /\ UNCHANGED <<rlVars, unitVars, fmtVars>>

\* an uploadCubeTexture that uploads as uploadTexture does
uploadCubeTextureImplemented(props, t, slot) ==
    \E name \in 1..MaxName : uploadTexture("setTextureCube", props, t, slot, name)

\* uploadCubeTexture(textureProperties, texture, slot): an empty body
uploadCubeTexture(props, t, slot) ==
    noBind("setTextureCube", props, t, slot)

\* setTextureCube returns after uploadCubeTexture, before the bind
setTextureCube(t, slot) ==
    LET props == PropertiesGet(t)
    IN /\ IF Stale(props, t)
          THEN uploadCubeTexture(props, t, slot)
          ELSE bindOnly("setTextureCube", props, t, slot, "GL_TEXTURE_CUBE_MAP")
       /\ UNCHANGED <<texVersion, texImage, texShape>>
       /\ UNCHANGED <<rlVars, unitVars, fmtVars>>

\* a deallocateTexture that deletes the texture name and keeps the entry
PropertiesAfterDeallocateKept(t) == PropertiesWith(t, PropertiesGet(t))

\* the table deallocateTexture(texture) leaves
PropertiesAfterDeallocate(t) ==
    IF ~PropertiesGet(t).glInit THEN PropertiesWith(t, PropertiesGet(t))
    ELSE PropertiesRemove(t)

\* a deallocateTexture that never calls glDeleteTextures
NamesAfterDeallocateLeaked(t) == glTextureNames

\* the texture names deallocateTexture(texture) leaves: glDeleteTextures
NamesAfterDeallocate(t) ==
    IF PropertiesGet(t).glInit THEN glTextureNames \ {PropertiesGet(t).glTexture}
    ELSE glTextureNames

\* an onEvent that leaves info.memory.textures as it was
CounterAfterDisposeForgotten == infoMemoryTextures

\* the change of info.memory.textures on a dispose event
CounterAfterDispose == infoMemoryTextures - 1

\* TextureEventListener::onEvent: the texture's "dispose" event reaches the
\* listener initTexture registered
onEvent(t) ==
    /\ texListeners[t] > 0
    /\ texListeners' = [texListeners EXCEPT ![t] = @ - 1]
    /\ textureProperties' = PropertiesAfterDeallocate(t)
    /\ glTextureNames' = NamesAfterDeallocate(t)
    /\ infoMemoryTextures' = CounterAfterDispose
    /\ lastCall' = Call("dispose", t, 0, FALSE, "none", 0, FALSE, FALSE)
    /\ UNCHANGED <<texVersion, texImage, texGenerateMipmaps, texShape>>
    /\ UNCHANGED <<rlVars, unitVars, fmtVars>>

(***************************************************************************)
(* getInternalFormat.  GL enumerants are referred to by name.              *)
(***************************************************************************)
GLFormats == { "GL_RED", "GL_RG", "GL_RGB", "GL_RGBA", "GL_ALPHA", "GL_LUMINANCE",
               "GL_DEPTH_COMPONENT", "GL_DEPTH_STENCIL" }

GLTypes == { "GL_UNSIGNED_BYTE", "GL_BYTE", "GL_UNSIGNED_SHORT", "GL_SHORT",
             "GL_UNSIGNED_INT", "GL_INT", "GL_HALF_FLOAT", "GL_FLOAT" }

\* a getInternalFormat that returns the format as it came
getInternalFormatUnsized(format, type) == format

\* getInternalFormat(glFormat, glType): three blocks of three ifs, each
\* assigning internalFormat; the one that assigns last decides
getInternalFormat(format, type) ==
    LET red  == IF format # "GL_RED" THEN format
                ELSE IF type = "GL_UNSIGNED_BYTE" THEN "GL_R8"
                ELSE IF type = "GL_HALF_FLOAT" THEN "GL_R16F"
                ELSE IF type = "GL_FLOAT" THEN "GL_R32F"
                ELSE format
        rgb  == IF format # "GL_RGB" THEN red
                ELSE IF type = "GL_UNSIGNED_BYTE" THEN "GL_RGB8"
                ELSE IF type = "GL_HALF_FLOAT" THEN "GL_RGB16F"
                ELSE IF type = "GL_FLOAT" THEN "GL_RGB32F"
                ELSE red
        rgba == IF format # "GL_RGBA" THEN rgb
                ELSE IF type = "GL_UNSIGNED_BYTE" THEN "GL_RGBA8"
                ELSE IF type = "GL_HALF_FLOAT" THEN "GL_RGBA16F"
                ELSE IF type = "GL_FLOAT" THEN "GL_RGBA32F"
                ELSE rgb
    IN rgba

\* uploadTexture's call: glInternalFormat = getInternalFormat(glFormat, glType)
deriveInternalFormat ==
    /\ glInternalFormat' = getInternalFormat(glFormat, glType)
    /\ UNCHANGED <<glFormat, glType>>
    /\ UNCHANGED <<rlVars, texVars, unitVars>>

\* an RGBA texture of unsigned bytes, its internal format not derived yet
FormatNew ==
    /\ glFormat = "GL_RGBA"
    /\ glType = "GL_UNSIGNED_BYTE"
    /\ glInternalFormat = "none"

(***************************************************************************)
(* gl::GLTextures: texture units                                           *)
(***************************************************************************)
resetTextureUnits ==
    /\ textureUnits' = 0
    /\ unitOp' = "resetTextureUnits"
    /\ unitCalls' = 0
    /\ unitWasReset' = TRUE
    /\ UNCHANGED <<maxTextures, unitReturned, unitDiagnostic>>
    /\ UNCHANGED <<rlVars, texVars, fmtVars>>

\* an allocateTextureUnit that hands out no unit past the GPU's last one
AllocatedUnitClamped ==
    IF textureUnits >= maxTextures THEN maxTextures - 1 ELSE textureUnits

\* the unit allocateTextureUnit() returns
AllocatedUnit == textureUnits

allocateTextureUnit ==
    /\ textureUnits < MaxUnits
    /\ unitReturned' = AllocatedUnit
    /\ unitDiagnostic' = (textureUnits >= maxTextures)
    /\ textureUnits' = textureUnits + 1
    /\ unitOp' = "allocateTextureUnit"
    /\ unitCalls' = unitCalls + 1
    /\ UNCHANGED <<maxTextures, unitWasReset>>
    /\ UNCHANGED <<rlVars, texVars, fmtVars>>

\* no texture unit handed out yet
UnitsNew ==
    /\ textureUnits = 0
    /\ unitOp = "new"
    /\ unitReturned = -1
    /\ unitDiagnostic = FALSE
    /\ unitCalls = 0
    /\ unitWasReset = FALSE

(***************************************************************************)
(* The render list's specifications.  Spec runs every scene under every    *)
(* standard library; FrameSpec runs one scene and also records, at each    *)
(* init(), how many items the frame it ends had.                           *)
(***************************************************************************)
RenderListNew ==
    /\ renderItems = <<>>
    /\ renderItemsIndex = 0
    /\ opaque = <<>>
    /\ transparent = <<>>
    /\ stdlib \in StdLibs
    /\ lastOp = "new"
    /\ calls = 0
    /\ prevCount = 0
    /\ anyUnshift = FALSE

\* no texture bound yet
TextureManagerNew ==
    /\ texVersion = [t \in Textures |-> 0]
    /\ texListeners = [t \in Textures |-> 0]
    /\ textureProperties = <<>>
    /\ infoMemoryTextures = 0
    /\ glTextureNames = {}
    /\ lastCall = [op |-> "new", texture |-> 0, slot |-> 0, bound |-> FALSE,
                   target |-> "none", handle |-> 0, uploaded |-> FALSE,
                   allocated |-> FALSE, follows |-> "other",
                   priorUploaded |-> FALSE, priorAllocated |-> FALSE,
                   levels |-> 0, generated |-> FALSE]

\* no texture used yet
TexturesNew ==
    /\ TextureManagerNew
    /\ texShape = [t \in Textures |-> TextureShape(t)]
    /\ texGenerateMipmaps = [t \in Textures |-> TRUE]

Init ==
    /\ RenderListNew
    /\ FormatNew
    /\ UnitsNew
    /\ maxTextures = MaxMaxTextures
    /\ scene \in Scenes
    /\ TexturesNew
    /\ texImage = [t \in Textures |-> TRUE]

Next ==
    \/ init /\ UNCHANGED prevCount
    \/ \E d \in Draws(scene) : push(d)
    \/ \E d \in Draws(scene) : unshift(d)
    \/ sort
    \/ finish

Spec == Init /\ [][Next]_vars

FrameInit ==
    /\ RenderListNew
    /\ FormatNew
    /\ UnitsNew
    /\ maxTextures = MaxMaxTextures
    /\ scene = "mixed"
    /\ TexturesNew
    /\ texImage = [t \in Textures |-> TRUE]

FrameNext ==
    \/ init /\ prevCount' = calls
    \/ \E d \in Draws(scene) : push(d)
    \/ \E d \in Draws(scene) : unshift(d)
    \/ sort
    \/ finish

FrameSpec == FrameInit /\ [][FrameNext]_vars

(***************************************************************************)
(* The texture manager's specification: the application changes its        *)
(* textures and disposes them, the renderer binds them.                    *)
(***************************************************************************)
TexInit ==
    /\ RenderListNew
    /\ FormatNew
    /\ UnitsNew
    /\ maxTextures = MaxMaxTextures
    /\ scene = "mixed"
    /\ TexturesNew
    /\ texImage \in [Textures -> BOOLEAN]

TexNext ==
    \/ \E t \in Textures : needsUpdate(t)
    \/ \E t \in Textures : \E present \in BOOLEAN : setImage(t, present)
    \/ \E t \in Textures : \E slot \in Slots : setTexture2D(t, slot)
    \/ \E t \in Textures : \E slot \in Slots : setTexture2DArray(t, slot)
    \/ \E t \in Textures : \E slot \in Slots : setTexture3D(t, slot)
    \/ \E t \in Textures : \E slot \in Slots : setTextureCube(t, slot)
    \/ \E t \in Textures : onEvent(t)

TexSpec == TexInit /\ [][TexNext]_vars

(***************************************************************************)
(* The texture units' specification: a pass resets the counter and         *)
(* allocates units, on a GPU of any number of texture units.               *)
(***************************************************************************)
UnitInit ==
    /\ RenderListNew
    /\ FormatNew
    /\ scene = "mixed"
    /\ TexturesNew
    /\ texImage = [t \in Textures |-> TRUE]
    /\ UnitsNew
    /\ maxTextures \in 1..MaxMaxTextures

UnitNext ==
    \/ resetTextureUnits
    \/ allocateTextureUnit

UnitSpec == UnitInit /\ [][UnitNext]_vars

(***************************************************************************)
(* getInternalFormat's specification: any format with any type.            *)
(***************************************************************************)
FormatInit ==
    /\ RenderListNew
    /\ scene = "mixed"
    /\ TexturesNew
    /\ texImage = [t \in Textures |-> TRUE]
    /\ UnitsNew
    /\ maxTextures = MaxMaxTextures
    /\ glFormat \in GLFormats
    /\ glType \in GLTypes
    /\ glInternalFormat = "none"

FormatNext == deriveInternalFormat

FormatSpec == FormatInit /\ [][FormatNext]_vars

(***************************************************************************)
(* uploadTexture's specification: texture 1 is created with any number of  *)
(* manual mipmaps, any image size, any minification filter and any        *)
(* generateMipmaps, then marked for update and bound.                      *)
(***************************************************************************)
Filters == { "NearestFilter", "NearestMipmapNearestFilter", "NearestMipmapLinearFilter",
             "LinearFilter", "LinearMipmapNearestFilter", "LinearMipmapLinearFilter" }

Shapes ==
    [mipmaps : 0..MaxMipmaps, width : 1..MaxSize, height : 1..MaxSize,
     minFilter : Filters]

MipInit ==
    /\ RenderListNew
    /\ scene = "mixed"
    /\ FormatNew
    /\ UnitsNew
    /\ maxTextures = MaxMaxTextures
    /\ TextureManagerNew
    /\ texImage = [t \in Textures |-> TRUE]
    /\ \E shape \in Shapes :
          texShape = [t \in Textures |-> IF t = 1 THEN shape ELSE TextureShape(t)]
    /\ texGenerateMipmaps \in [Textures -> BOOLEAN]

MipNext ==
    \/ needsUpdate(1)
    \/ setTexture2D(1, 0)

MipSpec == MipInit /\ [][MipNext]_vars

(***************************************************************************)
(* Claims about the render list                                            *)
(***************************************************************************)
Buckets == { opaque, transparent }

\* positions i < j of a bucket hold items equal in groupOrder, renderOrder,
\* program and material
SameKeys(bucket, i, j) ==
    LET a == renderItems[bucket[i]]
        b == renderItems[bucket[j]]
    IN /\ a.groupOrder = b.groupOrder
       /\ a.renderOrder = b.renderOrder
       /\ a.program = b.program
       /\ a.material = b.material

\* C1: a finish() that ends a frame of fewer items than the frame before it
\* leaves the slots from the high-water mark up to the previous frame's count
\* in the pool, cleared (id -1, references null), and no slot below the mark
\* changed.
C1_FinishClearsTheShrinkage ==
    [][(lastOp' = "finish" /\ calls < prevCount) =>
          /\ \A i \in (renderItemsIndex' + 1)..prevCount :
                /\ i \in DOMAIN renderItems'
                /\ renderItems'[i].id = InactiveId
                /\ renderItems'[i].object = nullptr
                /\ renderItems'[i].geometry = nullptr
                /\ renderItems'[i].material = nullptr
                /\ renderItems'[i].program = nullptr
                /\ renderItems'[i].group = nullopt
          /\ \A i \in 1..renderItemsIndex' :
                i \in DOMAIN renderItems' /\ renderItems'[i] = renderItems[i]]_vars

\* C2: init() sets renderItemsIndex to 0, empties opaque and transparent and
\* leaves the pool as it was.
C2_InitKeepsThePool ==
    [][lastOp' = "init" =>
          /\ renderItemsIndex' = 0
          /\ opaque' = <<>>
          /\ transparent' = <<>>
          /\ renderItems' = renderItems]_vars

\* C3: right after sort(), in a frame built by push alone, transparent items equal in groupOrder, renderOrder,
\* program and material stand in descending z.
C3_TransparentBackToFront ==
    (lastOp = "sort" /\ ~anyUnshift) =>
        \A i, j \in DOMAIN transparent :
            (i < j /\ SameKeys(transparent, i, j)) =>
                renderItems[transparent[i]].z >= renderItems[transparent[j]].z

\* C4: right after sort(), in a frame built by push alone, opaque items equal in groupOrder, renderOrder,
\* program and material stand in ascending z.
C4_OpaqueFrontToBack ==
    (lastOp = "sort" /\ ~anyUnshift) =>
        \A i, j \in DOMAIN opaque :
            (i < j /\ SameKeys(opaque, i, j)) =>
                renderItems[opaque[i]].z <= renderItems[opaque[j]].z

\* C5: right after sort(), in a frame built by push alone, two items of a
\* bucket equal in groupOrder, renderOrder, program, material and z stand in
\* the order they were pushed in (the order of their pool slots), whatever
\* their ids.
C5_SortKeepsPushOrder ==
    (lastOp = "sort" /\ ~anyUnshift) =>
        \A bucket \in Buckets : \A i, j \in DOMAIN bucket :
            ( /\ bucket[i] < bucket[j]
              /\ SameKeys(bucket, i, j)
              /\ renderItems[bucket[i]].z = renderItems[bucket[j]].z ) => i < j

\* C6: after N push/unshift calls since init(), the two buckets hold N
\* references together, every item of the frame is in transparent exactly
\* when its material is transparent and in opaque exactly when it is not,
\* and no item is referred to twice.
C6_BucketsPartitionThePushes ==
    /\ Len(opaque) + Len(transparent) = calls
    /\ \A i \in 1..calls :
          /\ i \in DOMAIN renderItems
          /\ (i \in Range(transparent)) <=> Material(renderItems[i].material).transparent
          /\ (i \in Range(opaque)) <=> ~Material(renderItems[i].material).transparent
    /\ Range(opaque) \cap Range(transparent) = {}
    /\ Cardinality(Range(opaque)) = Len(opaque)
    /\ Cardinality(Range(transparent)) = Len(transparent)

\* C6's case: a frame of at least three pushes with both buckets in use
C6_Witness ==
    /\ calls >= 3
    /\ lastOp = "push"
    /\ Len(opaque) >= 1
    /\ Len(transparent) >= 2

\* C7: a sort() called directly after a sort() changes neither bucket.
C7_SortIsIdempotent ==
    [][(lastOp = "sort" /\ lastOp' = "sort") =>
          (opaque' = opaque /\ transparent' = transparent)]_vars

\* the items opaque and transparent refer to
Referenced == Range(opaque) \cup Range(transparent)

\* C16: after every step, every item opaque or transparent refers to is in
\* the pool and active: id >= 0, object, geometry and material not null; a
\* finish() leaves every such item as it was.
C16_BucketItemsAreActive ==
    [][/\ \A i \in Range(opaque') \cup Range(transparent') :
             /\ i \in DOMAIN renderItems'
             /\ renderItems'[i].id >= 0
             /\ renderItems'[i].object # nullptr
             /\ renderItems'[i].geometry # nullptr
             /\ renderItems'[i].material # nullptr
       /\ lastOp' = "finish" =>
             \A i \in Referenced : renderItems'[i] = renderItems[i]]_vars

\* C16's case: finish() was called on a sorted frame with items in both
\* buckets
C16_Witness ==
    /\ lastOp = "finish"
    /\ Len(opaque) >= 2
    /\ Len(transparent) >= 2

C23_IndexIsThePoolSize ==
    /\ [](renderItemsIndex = Len(renderItems))
    /\ [][/\ lastOp' \in {"push", "unshift"} =>
               /\ Len(renderItems') = Len(renderItems) + 1
               /\ SubSeq(renderItems', 1, Len(renderItems)) = renderItems
               /\ \E d \in Draws(scene) :
                     renderItems'[Len(renderItems')] = NewRenderItem(d)
          /\ lastOp' = "finish" => renderItems' = renderItems]_vars

\* C23's case: a frame of one item ended after a frame of two: the pool holds
\* that one item, not cleared, and no slot of the frame before
C23_Witness ==
    /\ lastOp = "finish"
    /\ prevCount = 2
    /\ calls = 1
    /\ renderItemsIndex = 1
    /\ Len(renderItems) = 1
    /\ renderItems[1].id # InactiveId

(***************************************************************************)
(* Claims about the texture manager                                        *)
(***************************************************************************)
SetTextureOps == { "setTexture2D", "setTexture2DArray", "setTexture3D" }

\* C8: the dispose event of an allocated texture lowers info.memory.textures
\* by exactly 1, deletes its texture name, removes its entry from the table
\* and removes the listener; a setTexture2D that finds the texture with an
\* image and without a GPU handle, directly after the disposal or later,
\* allocates as on first use: glInit goes from false to true, the handle is a
\* newly generated name, the counter goes up by 1, the listener is back.
C8_DisposeThenAllocateAgain ==
    [][\A t \in Textures :
          /\ (lastCall'.op = "dispose" /\ lastCall'.texture = t /\ PropertiesGet(t).glInit) =>
                /\ infoMemoryTextures' = infoMemoryTextures - 1
                /\ glTextureNames' = glTextureNames \ {PropertiesGet(t).glTexture}
                /\ t \notin DOMAIN textureProperties'
                /\ texListeners'[t] = 0
          /\ ( /\ lastCall'.op = "setTexture2D" /\ lastCall'.texture = t /\ texImage[t]
               /\ \/ lastCall'.follows = "dispose"
                  \/ (~PropertiesGet(t).glInit /\ texVersion[t] > 0) ) =>
                /\ ~PropertiesGet(t).glInit
                /\ textureProperties'[t].glInit
                /\ lastCall'.allocated
                /\ textureProperties'[t].glTexture \in glTextureNames' \ glTextureNames
                /\ infoMemoryTextures' = infoMemoryTextures + 1
                /\ texListeners'[t] = 1]_vars

\* C8's case: a texture allocated again by the setTexture2D that follows its
\* disposal, while the other texture stays allocated
C8_Witness ==
    /\ lastCall.op = "setTexture2D"
    /\ lastCall.follows = "dispose"
    /\ lastCall.allocated
    /\ infoMemoryTextures = 2

\* C9: after a setTexture2D, setTexture2DArray or setTexture3D on a texture
\* that is stale and has no image, nothing was uploaded and the texture's
\* handle is bound to the call's texture unit.
C9_StaleWithoutImageStillBinds ==
    ( /\ lastCall.op \in SetTextureOps
      /\ ~texImage[lastCall.texture]
      /\ Stale(PropertiesGet(lastCall.texture), lastCall.texture) ) =>
        /\ ~lastCall.uploaded
        /\ lastCall.bound
        /\ lastCall.handle = PropertiesGet(lastCall.texture).glTexture

\* C10 as stated: of two setTexture2D calls in a row on one texture that has
\* an image, the first allocates and uploads and the second only binds.
C10_TwoBindsAllocateAndUploadOnce ==
    ( /\ lastCall.op = "setTexture2D"
      /\ lastCall.follows = "same"
      /\ texImage[lastCall.texture] ) =>
        /\ lastCall.priorAllocated
        /\ lastCall.priorUploaded
        /\ ~lastCall.allocated
        /\ ~lastCall.uploaded
        /\ lastCall.bound

\* C10, amended: a setTexture2D on a texture that has an image uploads exactly
\* when the texture is stale and allocates exactly when it is stale and has no
\* GPU handle yet, the counter going up by 1 then; a second setTexture2D in a
\* row on that texture only binds: no upload, no allocation, the entry, the
\* counter and the texture names as they were, the texture's handle bound as
\* GL_TEXTURE_2D.
C10_SecondBindOnlyBinds ==
    [][\A t \in Textures :
          (lastCall'.op = "setTexture2D" /\ lastCall'.texture = t /\ texImage[t]) =>
             /\ lastCall'.uploaded <=> Stale(PropertiesGet(t), t)
             /\ lastCall'.allocated <=>
                    (Stale(PropertiesGet(t), t) /\ ~PropertiesGet(t).glInit)
             /\ infoMemoryTextures' =
                    infoMemoryTextures + (IF lastCall'.allocated THEN 1 ELSE 0)
             /\ lastCall'.follows = "same" =>
                    /\ ~lastCall'.uploaded
                    /\ ~lastCall'.allocated
                    /\ lastCall'.bound
                    /\ lastCall'.target = "GL_TEXTURE_2D"
                    /\ lastCall'.handle = textureProperties[t].glTexture
                    /\ textureProperties' = textureProperties
                    /\ glTextureNames' = glTextureNames
                    /\ infoMemoryTextures' = infoMemoryTextures]_vars

\* C10's case: the second of two setTexture2D calls in a row, the first of
\* which allocated and uploaded
C10_Witness ==
    /\ lastCall.op = "setTexture2D"
    /\ lastCall.follows = "same"
    /\ lastCall.priorAllocated
    /\ lastCall.priorUploaded
    /\ lastCall.bound
    /\ ~lastCall.uploaded
    /\ texImage[lastCall.texture]

AllSetTextureOps == SetTextureOps \cup { "setTextureCube" }

\* C11: a setTexture2D, setTexture2DArray, setTexture3D or setTextureCube on
\* a texture whose version() is 0, with or without image, uploads nothing and
\* allocates nothing: it binds the handle the entry holds, and the entry's
\* version and glInit, the counter, the texture names and the listeners stay
\* as they were.
C11_VersionZeroIsNeverUploaded ==
    [][\A t \in Textures :
          ( /\ lastCall'.op \in AllSetTextureOps
            /\ lastCall'.texture = t
            /\ texVersion[t] = 0 ) =>
              /\ ~lastCall'.uploaded
              /\ ~lastCall'.allocated
              /\ lastCall'.bound
              /\ lastCall'.handle = PropertiesGet(t).glTexture
              /\ textureProperties'[t].version = PropertiesGet(t).version
              /\ textureProperties'[t].glInit = PropertiesGet(t).glInit
              /\ infoMemoryTextures' = infoMemoryTextures
              /\ glTextureNames' = glTextureNames
              /\ texListeners' = texListeners]_vars

\* C11's case: a texture of version 0 with an image was bound while the other
\* texture is allocated
C11_Witness ==
    /\ lastCall.op \in AllSetTextureOps
    /\ texVersion[lastCall.texture] = 0
    /\ texImage[lastCall.texture]
    /\ lastCall.bound
    /\ lastCall.texture \in DOMAIN textureProperties
    /\ ~textureProperties[lastCall.texture].glInit
    /\ infoMemoryTextures = 1

\* C12: every upload runs initTexture.  On an entry whose glInit is not set it
\* sets glInit, stores one newly generated texture name, registers one
\* listener and raises info.memory.textures by 1; on an entry whose glInit is
\* set it leaves the handle, the texture names, the listeners and the counter
\* as they were.  No texture ever has more than one listener.
C12_InitTextureIsIdempotent ==
    [][\A t \in Textures :
          (lastCall'.uploaded /\ lastCall'.texture = t) =>
              /\ textureProperties'[t].glInit
              /\ ~PropertiesGet(t).glInit =>
                    /\ lastCall'.allocated
                    /\ textureProperties'[t].glTexture \notin glTextureNames
                    /\ glTextureNames' = glTextureNames \cup {textureProperties'[t].glTexture}
                    /\ texListeners' = [texListeners EXCEPT ![t] = 1]
                    /\ infoMemoryTextures' = infoMemoryTextures + 1
              /\ PropertiesGet(t).glInit =>
                    /\ ~lastCall'.allocated
                    /\ textureProperties'[t].glTexture = textureProperties[t].glTexture
                    /\ glTextureNames' = glTextureNames
                    /\ texListeners' = texListeners
                    /\ texListeners[t] = 1
                    /\ infoMemoryTextures' = infoMemoryTextures]_vars

\* C12's case: a texture uploaded a second time, its handle kept
C12_Witness ==
    /\ lastCall.uploaded
    /\ ~lastCall.allocated
    /\ textureProperties[lastCall.texture].glInit
    /\ textureProperties[lastCall.texture].version = 2
    /\ texListeners[lastCall.texture] = 1
    /\ infoMemoryTextures = 1

\* C13: in every state, an entry of the table has glInit set exactly when the
\* handle it holds is a texture name generated and not deleted; every such
\* name is the handle of exactly one entry.
C13_GlInitIffHandleAllocated ==
    /\ \A t \in DOMAIN textureProperties :
          textureProperties[t].glInit <=> textureProperties[t].glTexture \in glTextureNames
    /\ \A name \in glTextureNames :
          Cardinality({ t \in DOMAIN textureProperties :
                          textureProperties[t].glInit
                          /\ textureProperties[t].glTexture = name }) = 1

\* C13's case: after a disposal, one entry with a handle and one entry,
\* made again by a bind, without
C13_Witness ==
    \E t, u \in DOMAIN textureProperties :
        /\ textureProperties[t].glInit
        /\ ~textureProperties[u].glInit
        /\ texVersion[u] > 0
        /\ texListeners[u] = 0
        /\ glTextureNames = {textureProperties[t].glTexture}

C21_SetTextureCubeOnStaleIsNoOp ==
    [][\A t \in Textures :
          ( /\ lastCall'.op = "setTextureCube"
            /\ lastCall'.texture = t
            /\ Stale(PropertiesGet(t), t) ) =>
              /\ ~lastCall'.allocated
              /\ ~lastCall'.uploaded
              /\ ~lastCall'.bound
              /\ textureProperties'[t] = PropertiesGet(t)
              /\ \A u \in (DOMAIN textureProperties) \ {t} :
                    textureProperties'[u] = textureProperties[u]
              /\ infoMemoryTextures' = infoMemoryTextures
              /\ glTextureNames' = glTextureNames
              /\ texListeners' = texListeners
              /\ texVersion' = texVersion
              /\ texVersion'[t] > 0
              /\ textureProperties'[t].version # texVersion'[t]]_vars

\* C21's case: the second of two setTextureCube calls in a row on a texture
\* that has an image and an uploaded older version, still stale, nothing bound
C21_Witness ==
    /\ lastCall.op = "setTextureCube"
    /\ lastCall.follows = "same"
    /\ ~lastCall.bound
    /\ texImage[lastCall.texture]
    /\ texVersion[lastCall.texture] = 2
    /\ textureProperties[lastCall.texture].glInit
    /\ textureProperties[lastCall.texture].version = 1
    /\ infoMemoryTextures = 1

\* the entries of the table whose glInit is set
InitialisedTextures ==
    { t \in DOMAIN textureProperties : textureProperties[t].glInit }

\* C22: in every state reached by setTexture2D, setTexture2DArray,
\* setTexture3D (and setTextureCube) calls and dispose events,
\* info.memory.textures is the number of entries of the table whose glInit is
\* set, and it is not negative.
C22_CounterCountsInitialisedTextures ==
    /\ infoMemoryTextures = Cardinality(InitialisedTextures)
    /\ infoMemoryTextures >= 0

\* C22's case: one texture was disposed and the other, uploaded twice, is
\* still allocated: the counter is back from 2 to 1
C22_Witness ==
    /\ lastCall.op = "dispose"
    /\ infoMemoryTextures = 1
    /\ \E u \in InitialisedTextures :
          /\ u # lastCall.texture
          /\ textureProperties[u].version = 2
    /\ lastCall.texture \notin DOMAIN textureProperties

(***************************************************************************)
(* Claims about the texture units                                          *)
(***************************************************************************)
\* C14: the k-th allocateTextureUnit() after a resetTextureUnits() returns
\* k-1 and leaves the counter at k, with no upper limit from maxTextures; a
\* resetTextureUnits() leaves the counter at 0.
C14_AllocateReturnsTheCallIndex ==
    /\ (unitOp = "allocateTextureUnit" /\ unitWasReset) =>
          /\ unitReturned = unitCalls - 1
          /\ textureUnits = unitCalls
    /\ unitOp = "resetTextureUnits" => textureUnits = 0

\* C14's case: after a reset, an allocation past the GPU's last unit
C14_Witness ==
    /\ unitOp = "allocateTextureUnit"
    /\ unitWasReset
    /\ unitCalls = maxTextures + 2
    /\ unitReturned = maxTextures + 1
    /\ unitDiagnostic

(***************************************************************************)
(* Claims about getInternalFormat                                          *)
(***************************************************************************)
\* the nine sized internal formats: format, type, internal format
SizedFormats ==
    { <<"GL_RED",  "GL_FLOAT", "GL_R32F">>,
      <<"GL_RED",  "GL_HALF_FLOAT", "GL_R16F">>,
      <<"GL_RED",  "GL_UNSIGNED_BYTE", "GL_R8">>,
      <<"GL_RGB",  "GL_FLOAT", "GL_RGB32F">>,
      <<"GL_RGB",  "GL_HALF_FLOAT", "GL_RGB16F">>,
      <<"GL_RGB",  "GL_UNSIGNED_BYTE", "GL_RGB8">>,
      <<"GL_RGBA", "GL_FLOAT", "GL_RGBA32F">>,
      <<"GL_RGBA", "GL_HALF_FLOAT", "GL_RGBA16F">>,
      <<"GL_RGBA", "GL_UNSIGNED_BYTE", "GL_RGBA8">> }

\* C15: the value getInternalFormat returned is the sized internal format of
\* the pair (format, type) when the pair is one of the nine, and the format
\* itself for every other pair.
C15_InternalFormatTable ==
    glInternalFormat # "none" =>
        /\ \A row \in SizedFormats :
              (row[1] = glFormat /\ row[2] = glType) => glInternalFormat = row[3]
        /\ (\A row \in SizedFormats : row[1] # glFormat \/ row[2] # glType) =>
              glInternalFormat = glFormat

\* C15's case: a pair of the table, derived
C15_Witness ==
    /\ glFormat = "GL_RED"
    /\ glType = "GL_HALF_FLOAT"
    /\ glInternalFormat = "GL_R16F"

(***************************************************************************)
(* Claims about uploadTexture                                              *)
(***************************************************************************)
\* floor(log2(n)) for n >= 1
FloorLog2(n) == CHOOSE k \in 0..n : 2^k <= n /\ n < 2^(k + 1)

\* C20: an upload of a texture with M > 0 manual mipmaps uploads M levels,
\* sets the texture's generateMipmaps to false, records maxMipLevel = M - 1
\* and does not generate mipmaps; an upload of a texture without manual
\* mipmaps uploads one level, leaves generateMipmaps alone and records
\* floor(log2(max(width, height))), generating mipmaps, when generateMipmaps
\* is true and minFilter is neither NearestFilter nor LinearFilter, else 0,
\* generating none.
C20_MaxMipLevelAfterUpload ==
    [][\A t \in Textures :
          (lastCall'.uploaded /\ lastCall'.texture = t) =>
              LET M == Texture(t).mipmaps
                  mipmapped == /\ texGenerateMipmaps[t]
                               /\ Texture(t).minFilter \notin {"NearestFilter", "LinearFilter"}
              IN /\ M > 0 =>
                       /\ lastCall'.levels = M
                       /\ ~texGenerateMipmaps'[t]
                       /\ textureProperties'[t].maxMipLevel = M - 1
                       /\ ~lastCall'.generated
                 /\ M = 0 =>
                       /\ lastCall'.levels = 1
                       /\ texGenerateMipmaps'[t] = texGenerateMipmaps[t]
                       /\ lastCall'.generated <=> mipmapped
                       /\ textureProperties'[t].maxMipLevel =
                              IF mipmapped
                              THEN FloorLog2(Max(Texture(t).width, Texture(t).height))
                              ELSE 0]_vars

\* C20's case: a 5 x 3 image without manual mipmaps, uploaded with a
\* mipmapping filter
C20_Witness ==
    /\ lastCall.uploaded
    /\ lastCall.texture = 1
    /\ Texture(1).mipmaps = 0
    /\ Texture(1).width = 5
    /\ Texture(1).height = 3
    /\ lastCall.generated
    /\ textureProperties[1].maxMipLevel = 2

====
